---- MODULE Spec2Model ----
(***************************************************************************)
(* Toronto Fast Crime API: the ingestion pipeline (ingest_data.py), the    *)
(* incident store (table crimes) and the cached scoring engine             *)
(* (scoring.py, calculate_score behind functools.lru_cache), the HTTP      *)
(* endpoints (main.py), the forecast selection (forecasting.py) and the    *)
(* acquisition of the datasets (ingest_data.py --download).                *)
(*                                                                         *)
(* Numbers stand for the numeric cells of the inputs: a coordinate is an   *)
(* integer grid position, a date is a day number.  NaN is the missing      *)
(* numeric cell (pandas NaN / JSON null), NoneDate the datetime that       *)
(* parse_date could not produce (Python None, stored as the text "None").  *)
(***************************************************************************)
EXTENDS Integers, Sequences, FiniteSets, TLC

VARIABLES
    data,        \* the input directory data/: the rows of each file, in glob order
    crimes,      \* table crimes of crime_data.db, in insertion (id) order
    runs,        \* executions of main() so far
    crashed,     \* the last execution of main() ended in an uncaught exception
    now,         \* the current day
    ticks,       \* the times the clock has advanced
    benchFile,   \* the version of benchmarks.json on disk
    BENCHMARKS,  \* the baseline scoring.py loaded when it was imported
    cache,       \* lru_cache of calculate_score: entries, least recently used first
    th,          \* the server's worker threads, each serving one request at a time
    used,        \* the cached-or-evicted keys in the order of their last use
    request,     \* the HTTP request the server handled last
    reply,       \* its response, with what the handler did on the way
    args,        \* the arguments of the last direct call of a scoring or forecasting function
    result,      \* what that call returned
    step,        \* where run_download is: idle, resolve, page, convert, analyze, write, done
    dset,        \* the dataset run_download is at: an index of DatasetNames
    offset,      \* download_csv: the resultOffset of the next request
    all_features,\* download_csv: the features accumulated, one chunk per page
    pages,       \* the requests of this download_csv call with what the service answered
    processed,   \* the datasets run_download has started on, in order
    files,       \* the datasets whose file download_csv saved in this run
    analyzed,    \* the datasets analyze_file returned an info for
    metadata     \* the Ingestion Metadata: its datasets list, and whether it is written

ingestVars == <<data, crimes, runs, crashed>>
scoreVars == <<now, ticks, benchFile, BENCHMARKS, cache, th, used>>
callVars == <<request, reply, args, result>>
downloadVars ==
    <<step, dset, offset, all_features, pages, processed, files, analyzed, metadata>>
vars == <<data, crimes, runs, crashed, now, ticks, benchFile, BENCHMARKS, cache, th, used,
          request, reply, args, result,
          step, dset, offset, all_features, pages, processed, files, analyzed, metadata>>

----------------------------------------------------------------------------
(* Bounds of the model *)

\* rows and features in the whole input directory
MaxRows == 2
\* executions of main() in one behaviour
MaxRuns == 2
\* advances of the clock in one behaviour
MaxTicks == 1
\* capacity of the result cache in the model (the program's is maxsize=1024)
MaxSize == 2
\* length of a reference array, and its largest value, in the direct calls of
\* calculate_percentile_score
MaxDistLen == 5
MaxValue == 8
\* percentiles are the fractions n/d with d up to MaxDen
MaxDen == 4
\* entries of a history in the direct calls of select_best_forecast
MaxHist == 6
\* the incidents of a store that calculate_score is called on directly
MaxIncidents == 3
\* the full pages the service sends for one dataset before a page that ends the loop
MaxPages == 2

----------------------------------------------------------------------------
(* Values *)

NaN == -1
NoneDate == -1
\* an empty text cell of a column that is present (pandas NaN)
NA == "NA"
\* what row.get / props.get give for a column or property that is absent
PyNone == "PyNone"

\* the day every dated input row carries
OccDay == 3700

Ids == {"E1", "E2"}
\* the cells of a key column: an id, or nothing
CellIds == Ids \cup {NA}
CellCoords == {NaN, 0, 1}
CellDates == {NaN, OccDay}

\* pd.isna on a numeric cell and on a text cell
IsNa(v) == v = NaN
IsNaText(v) == v \in {NA, PyNone}

\* str() of a key: an id is its own text, pandas NaN prints "nan", None "None"
Str(v) == IF v = NA THEN "nan" ELSE IF v = PyNone THEN "None" ELSE v

\* parse_date(str(cell)): dateutil parses the text of a day, and fails (None) on
\* the text of a missing cell ("nan", "None")
parse_date(cell) == IF cell = NaN THEN NoneDate ELSE cell

----------------------------------------------------------------------------
(* Input files *)

CsvName == "assault.csv"
GeoNames == <<"homicides_a.geojson", "homicides_b.geojson">>

\* CATEGORY_MAPPING applied to the base name of a tabular file
file_category(name) == IF name = "assault.csv" THEN "Assault" ELSE "Other"

\* A row of a tabular file.  The fallback columns (Latitude, Longitude, OCC_date,
\* REPORT_DATE, OBJECTID, MCI_CATEGORY) are absent from the modelled files, so
\* row.get on them is None.  malformed: processing the row raises inside the try.
CsvRows ==
    [EVENT_UNIQUE_ID : CellIds, LAT_WGS84 : CellCoords, LONG_WGS84 : CellCoords,
     OCC_DATE : CellDates, malformed : {FALSE}]
    \cup
    [EVENT_UNIQUE_ID : {"E1"}, LAT_WGS84 : {1}, LONG_WGS84 : {1},
     OCC_DATE : {OccDay}, malformed : {TRUE}]

\* A feature of a GeoJSON file.  gtype "null" is "geometry": null.
PointFeatures ==
    [gtype : {"Point"}, coordinates : [1..2 -> {0, 1}],
     OCC_DATE : CellDates, EVENT_UNIQUE_ID : Ids \cup {PyNone}]
OtherFeatures ==
    [gtype : {"null", "LineString"}, coordinates : {<<>>},
     OCC_DATE : {OccDay}, EVENT_UNIQUE_ID : {"E1"}]
    \cup
    [gtype : {"Point"}, coordinates : {<<>>, <<1>>},
     OCC_DATE : {OccDay}, EVENT_UNIQUE_ID : {"E1"}]
Features == PointFeatures \cup OtherFeatures

\* the input directories with at most MaxRows rows and features in all:
\* one tabular file and two GeoJSON files, in glob order
Splits == {s \in [1..3 -> 0..MaxRows] : s[1] + s[2] + s[3] <= MaxRows}
DataDirs ==
    UNION {[csv : [1..s[1] -> CsvRows],
            geo1 : [1..s[2] -> Features],
            geo2 : [1..s[3] -> Features]] : s \in Splits}

GeoFiles(d) == <<d.geo1, d.geo2>>

----------------------------------------------------------------------------
(* The incident store *)

Row(id, date, lat, lon, category, file) ==
    [event_unique_id |-> id, date |-> date, lat |-> lat, lon |-> lon,
     category |-> category, source_file |-> file]

\* the key compared as SQL compares NULL: the text of a missing key equals nothing
HasKeyNull(table, id) ==
    /\ id \notin {"None", "nan"}
    /\ \E i \in 1..Len(table) : table[i].event_unique_id = id

HasKey(table, id) == \E i \in 1..Len(table) : table[i].event_unique_id = id

\* INSERT without the UNIQUE(event_unique_id) conflict clause taking effect
InsertAll(table, records) == table \o records

\* INSERT OR REPLACE: a record whose key is stored replaces the stored row
RECURSIVE InsertOrReplace(_, _)
InsertOrReplace(table, records) ==
    IF records = <<>> THEN table
    ELSE LET r == Head(records)
         IN  InsertOrReplace(
                 Append(SelectSeq(table,
                                  LAMBDA x : x.event_unique_id # r.event_unique_id), r),
                 Tail(records))

\* INSERT OR IGNORE ... executemany under UNIQUE(event_unique_id): the records
\* are inserted in order, one whose key is already stored is skipped
RECURSIVE InsertOrIgnore(_, _)
InsertOrIgnore(table, records) ==
    IF records = <<>> THEN table
    ELSE LET r == Head(records)
         IN  InsertOrIgnore(IF HasKey(table, r.event_unique_id) THEN table
                            ELSE Append(table, r),
                            Tail(records))

----------------------------------------------------------------------------
(* ingest_csv *)

\* the checks of one row without the comparison of the coordinates with zero
CsvRowKeptNoZero(row) ==
    /\ ~row.malformed
    /\ ~(IsNa(row.LAT_WGS84) \/ IsNa(row.LONG_WGS84))
    /\ parse_date(row.OCC_DATE) # NoneDate

\* the checks of one row: the row raises, or a coordinate is absent or zero,
\* or the date does not parse
CsvRowKept(row) ==
    /\ ~row.malformed
    /\ ~(IsNa(row.LAT_WGS84) \/ IsNa(row.LONG_WGS84)
         \/ row.LAT_WGS84 = 0 \/ row.LONG_WGS84 = 0)
    /\ parse_date(row.OCC_DATE) # NoneDate

\* event_id = row.get('EVENT_UNIQUE_ID'), else row.get('OBJECTID'): the files
\* have no OBJECTID column, so the fallback is None
CsvEventId(row) ==
    IF IsNaText(row.EVENT_UNIQUE_ID) THEN PyNone ELSE row.EVENT_UNIQUE_ID

CsvRecord(row, name) ==
    Row(Str(CsvEventId(row)), parse_date(row.OCC_DATE),
        row.LAT_WGS84, row.LONG_WGS84, file_category(name), name)

RECURSIVE CsvRecords(_, _)
CsvRecords(rows, name) ==
    IF rows = <<>> THEN <<>>
    ELSE (IF CsvRowKept(Head(rows)) THEN <<CsvRecord(Head(rows), name)>> ELSE <<>>)
         \o CsvRecords(Tail(rows), name)

ingest_csv(rows, name, table) == InsertOrIgnore(table, CsvRecords(rows, name))

----------------------------------------------------------------------------
(* ingest_geojson *)

\* geom.get(...) on "geometry": null raises AttributeError; nothing catches it
FeatureRaises(f) == f.gtype = "null"

FeatureKept(f) == f.gtype = "Point" /\ Len(f.coordinates) >= 2

\* coordinates are [lon, lat]; the date is str(parse_date(...)) unchecked
GeoRecord(f, name) ==
    Row(Str(f.EVENT_UNIQUE_ID), parse_date(f.OCC_DATE),
        f.coordinates[2], f.coordinates[1], "Homicide", name)

RECURSIVE GeoRecords(_, _)
GeoRecords(fs, name) ==
    IF fs = <<>> THEN <<>>
    ELSE (IF FeatureKept(Head(fs)) THEN <<GeoRecord(Head(fs), name)>> ELSE <<>>)
         \o GeoRecords(Tail(fs), name)

GeoFileRaises(fs) == \E i \in 1..Len(fs) : FeatureRaises(fs[i])

\* the table after the call, and whether the call raised (then nothing of the
\* file was inserted: the insert follows the loop)
ingest_geojson(fs, name, table) ==
    IF GeoFileRaises(fs) THEN [raised |-> TRUE, table |-> table]
    ELSE [raised |-> FALSE, table |-> InsertOrIgnore(table, GeoRecords(fs, name))]

----------------------------------------------------------------------------
(* main: every tabular file, then every GeoJSON file; an exception ends it *)

main(d, table) ==
    LET t1 == ingest_csv(d.csv, CsvName, table)
        g1 == ingest_geojson(d.geo1, GeoNames[1], t1)
        g2 == ingest_geojson(d.geo2, GeoNames[2], g1.table)
    IN  IF g1.raised THEN [raised |-> TRUE, table |-> g1.table]
        ELSE g2

----------------------------------------------------------------------------
(* Scoring: the percentile lookup.  Raw risk scores are in thousandths,     *)
(* safety scores and percentiles in tenths (the code rounds them to one     *)
(* decimal).                                                                *)

\* WEIGHTS, and df['category'].map(WEIGHTS).fillna(1)
WeightKeys ==
    {"Homicide", "Shooting", "Assault", "Robbery", "Break and Enter", "Auto Theft",
     "Theft Over", "Theft From Motor Vehicle", "Bicycle Theft", "NonMCI", "Other"}
WEIGHTS(cat) ==
    CASE cat = "Homicide" -> 100
      [] cat = "Shooting" -> 50
      [] cat = "Assault" -> 15
      [] cat = "Robbery" -> 10
      [] cat = "Break and Enter" -> 8
      [] cat = "Auto Theft" -> 6
      [] cat = "Theft Over" -> 4
      [] cat = "Theft From Motor Vehicle" -> 3
      [] cat = "Bicycle Theft" -> 2
      [] cat = "NonMCI" -> 2
      [] cat = "Other" -> 1
      [] OTHER -> 1

\* the versions of benchmarks.json
BenchVersions == {"v1", "v2"}
BenchmarkFile(v) ==
    IF v = "v1"
    THEN [overall_distribution |-> <<0, 5000, 20000, 60000, 150000>>,
          by_category |-> [c \in {"Assault", "Homicide"} |->
                              IF c = "Assault" THEN <<0, 10000, 30000, 50000>>
                              ELSE <<0, 0, 0, 100000>>]]
    ELSE [overall_distribution |-> <<0, 1000, 2000, 3000, 4000>>,
          by_category |-> [c \in {"Assault", "Homicide"} |->
                              IF c = "Assault" THEN <<0, 1000, 2000, 3000>>
                              ELSE <<0, 0, 0, 1000>>]]

\* load_benchmarks(): the content of the file, or {} when opening or parsing it
\* raises (version "missing"); BENCHMARKS.get(key, default) then gives the
\* empty default for both keys
EmptyBaseline == [overall_distribution |-> <<>>, by_category |-> <<>>]
load_benchmarks(v) == IF v = "missing" THEN EmptyBaseline ELSE BenchmarkFile(v)

\* round(x, 1) of x = num/den >= 0, in tenths (ties to the even tenth)
RoundTenths(num, den) ==
    LET q == (10 * num) \div den
        r == (10 * num) % den
    IN  IF 2 * r < den THEN q
        ELSE IF 2 * r > den THEN q + 1
        ELSE IF q % 2 = 0 THEN q ELSE q + 1

\* the mapping with the second segment falling 30 points instead of 20
percentile_to_safety_score_steep(n, d) ==
    IF n <= 50 * d THEN <<500 * d - n, 5 * d>>
    ELSE IF n <= 80 * d THEN <<140 * d - n, d>>
    ELSE IF n <= 95 * d THEN <<230 * d - 2 * n, d>>
    ELSE <<800 * d - 8 * n, d>>

\* percentile_to_safety_score of the percentile n/d, as a fraction <<num, den>>
percentile_to_safety_score(n, d) ==
    IF n <= 50 * d THEN <<500 * d - n, 5 * d>>
    ELSE IF n <= 80 * d THEN <<370 * d - 2 * n, 3 * d>>
    ELSE IF n <= 95 * d THEN <<230 * d - 2 * n, d>>
    ELSE <<800 * d - 8 * n, d>>

\* bisect.bisect_right(a, x) between lo and hi
RECURSIVE bisect_right(_, _, _, _)
bisect_right(a, x, lo, hi) ==
    IF lo < hi
    THEN LET mid == (lo + hi) \div 2
         IN  IF x < a[mid + 1] THEN bisect_right(a, x, lo, mid)
             ELSE bisect_right(a, x, mid + 1, hi)
    ELSE lo

\* bisect.bisect_left(a, x) between lo and hi
RECURSIVE bisect_left(_, _, _, _)
bisect_left(a, x, lo, hi) ==
    IF lo < hi
    THEN LET mid == (lo + hi) \div 2
         IN  IF a[mid + 1] < x THEN bisect_left(a, x, mid + 1, hi)
             ELSE bisect_left(a, x, lo, mid)
    ELSE lo

\* calculate_percentile_score: <<safety_score, percentile>>
calculate_percentile_score(raw_score, distribution) ==
    IF distribution = <<>> THEN <<500, 500>>
    ELSE IF raw_score <= 0 THEN <<1000, 0>>
    ELSE LET idx == bisect_left(distribution, raw_score, 0, Len(distribution))
             d == Len(distribution)
             s == percentile_to_safety_score(idx * 100, d)
         IN  <<RoundTenths(s[1], s[2]), RoundTenths(idx * 100, d)>>

----------------------------------------------------------------------------
(* Scoring: calculate_score.  The plane is a grid: the bounding box of the  *)
(* query is radius_km cells either way, the exact (haversine) distance is   *)
(* the Euclidean one.                                                       *)

\* date('now', '-10 years'), in days
TenYears == 3652
YearDays == 365

Abs(x) == IF x < 0 THEN -x ELSE x

\* WHERE lat BETWEEN ? AND ? AND lon BETWEEN ? AND ? AND date >= date('now',
\* '-10 years').  date is TEXT: the comparison is of strings, and the text
\* "None" sorts after every text that starts with a digit.
InQuery(r, lat, lon, radius_km, today) ==
    /\ r.lat # NaN /\ r.lon # NaN
    /\ Abs(r.lat - lat) <= radius_km
    /\ Abs(r.lon - lon) <= radius_km
    /\ (r.date = NoneDate \/ r.date >= today - TenYears)

\* df[df['distance'] <= radius_km]
InRadius(r, lat, lon, radius_km) ==
    (r.lat - lat) * (r.lat - lat) + (r.lon - lon) * (r.lon - lon)
        <= radius_km * radius_km

days_old(r, today) == today - r.date

\* np.exp(-0.15 * days_old / 365.25) in thousandths, interpolated linearly
\* between its values at 0 days (1.000) and at 365 days (0.861)
time_factor(days) == 1000 - (139 * days) \div 365

RECURSIVE SumSeq(_)
SumSeq(q) == IF q = <<>> THEN 0 ELSE Head(q) + SumSeq(Tail(q))

Scores(df, today) ==
    [i \in 1..Len(df) |-> WEIGHTS(df[i].category) * time_factor(days_old(df[i], today))]
Weights(df) == [i \in 1..Len(df) |-> WEIGHTS(df[i].category) * 1000]

\* the characters of a text of the code
Chars(text) ==
    CASE text = "High Safety Area" ->
            <<"H", "i", "g", "h", " ", "S", "a", "f", "e", "t", "y", " ", "A", "r", "e", "a">>
      [] text = "High Crime Area" ->
            <<"H", "i", "g", "h", " ", "C", "r", "i", "m", "e", " ", "A", "r", "e", "a">>
      [] text = "Nighttime Risk" ->
            <<"N", "i", "g", "h", "t", "t", "i", "m", "e", " ", "R", "i", "s", "k">>
      [] text = "High " ->
            <<"H", "i", "g", "h", " ">>
      [] text = "High" ->
            <<"H", "i", "g", "h">>
      [] text = "Risk" ->
            <<"R", "i", "s", "k">>
      [] text = "Safe" ->
            <<"S", "a", "f", "e">>
      [] text = "Homicide" ->
            <<"H", "o", "m", "i", "c", "i", "d", "e">>
      [] text = "Shooting" ->
            <<"S", "h", "o", "o", "t", "i", "n", "g">>
      [] text = "Assault" ->
            <<"A", "s", "s", "a", "u", "l", "t">>
      [] text = "Robbery" ->
            <<"R", "o", "b", "b", "e", "r", "y">>
      [] text = "Break and Enter" ->
            <<"B", "r", "e", "a", "k", " ", "a", "n", "d", " ", "E", "n", "t", "e", "r">>
      [] text = "Auto Theft" ->
            <<"A", "u", "t", "o", " ", "T", "h", "e", "f", "t">>
      [] text = "Theft Over" ->
            <<"T", "h", "e", "f", "t", " ", "O", "v", "e", "r">>
      [] text = "Theft From Motor Vehicle" ->
            <<"T", "h", "e", "f", "t", " ", "F", "r", "o", "m", " ", "M", "o", "t", "o", "r", " ", "V", "e", "h", "i", "c", "l", "e">>
      [] text = "Bicycle Theft" ->
            <<"B", "i", "c", "y", "c", "l", "e", " ", "T", "h", "e", "f", "t">>
      [] text = "NonMCI" ->
            <<"N", "o", "n", "M", "C", "I">>
      [] text = "Other" ->
            <<"O", "t", "h", "e", "r">>

\* "sub in text" only when text starts with sub
ContainsAtStart(sub, text) ==
    Len(sub) <= Len(text) /\ SubSeq(text, 1, Len(sub)) = sub

\* sub in text, for two sequences of characters
Contains(sub, text) ==
    \E i \in 1..(Len(text) - Len(sub) + 1) : SubSeq(text, i, i + Len(sub) - 1) = sub

\* WEIGHTS.keys(), in the order of the dict
WeightNames ==
    <<"Homicide", "Shooting", "Assault", "Robbery", "Break and Enter", "Auto Theft",
      "Theft Over", "Theft From Motor Vehicle", "Bicycle Theft", "NonMCI", "Other">>

\* step 6: the tags in the order the code appends them (the area tag, the tag of
\* the night, one tag per category of the breakdown in the order of WEIGHTS) and
\* their partition by substring.  Scores are in tenths.
RiskTags(current_score, day_safety, night_safety, cats) ==
    LET area == IF current_score >= 800 THEN <<Chars("High Safety Area")>>
                ELSE IF current_score <= 400 THEN <<Chars("High Crime Area")>>
                ELSE <<>>
        night == IF night_safety < day_safety - 200 THEN <<Chars("Nighttime Risk")>>
                 ELSE <<>>
        low == SelectSeq(WeightNames,
                         LAMBDA c : \E e \in cats : e.category = c /\ e.safety_score < 500)
        tags == area \o night \o [i \in 1..Len(low) |-> Chars("High ") \o Chars(low[i])]
    IN  [negative |-> SelectSeq(tags, LAMBDA t : \/ Contains(Chars("High"), t)
                                                 \/ Contains(Chars("Risk"), t)),
         positive |-> SelectSeq(tags, LAMBDA t : Contains(Chars("Safe"), t))]

\* the risk_tags of the base response
NoTags == [negative |-> <<>>, positive |-> <<>>]

\* the fields of the response the model keeps; ok is FALSE for a call that raised
Response(score, pct, hist, cats, tags) ==
    [ok |-> TRUE, current_score |-> score, overall_percentile |-> pct,
     history |-> hist, category_breakdown |-> cats, risk_tags |-> tags]
BaseResponse == Response(1000, 0, <<>>, {}, NoTags)
Raised ==
    [ok |-> FALSE, current_score |-> 0, overall_percentile |-> 0,
     history |-> <<>>, category_breakdown |-> {}, risk_tags |-> NoTags]

\* one entry of history: the rows aged [365 i, 365 (i + 1)) days
HistoryEntry(df, i, today, bench) ==
    LET year_df == SelectSeq(df, LAMBDA r : /\ days_old(r, today) >= i * YearDays
                                            /\ days_old(r, today) < (i + 1) * YearDays)
    IN  IF year_df = <<>> THEN [safety_score |-> 1000, incident_count |-> 0]
        ELSE [safety_score |->
                  calculate_percentile_score(SumSeq(Weights(year_df)),
                                             bench.overall_distribution)[1],
              incident_count |-> Len(year_df)]

\* the category_breakdown entry of cat, from the rows of df_current
CategoryEntry(df_current, cat, today, bench) ==
    LET cat_df == SelectSeq(df_current, LAMBDA r : r.category = cat)
        cat_dist == IF cat \in DOMAIN bench.by_category
                    THEN bench.by_category[cat] ELSE <<>>
        p == calculate_percentile_score(SumSeq(Scores(cat_df, today)), cat_dist)
        recent_count == Len(SelectSeq(cat_df, LAMBDA r : days_old(r, today) <= YearDays))
        prev_count == Len(SelectSeq(cat_df, LAMBDA r : /\ days_old(r, today) > YearDays
                                                      /\ days_old(r, today) <= 2 * YearDays))
        trend == IF prev_count = 0
                 THEN (IF recent_count > 0 THEN "Up" ELSE "Stable")
                 ELSE IF 5 * (recent_count - prev_count) > prev_count THEN "Up"
                 ELSE IF 5 * (recent_count - prev_count) < -prev_count THEN "Down"
                 ELSE "Stable"
    IN  [category |-> cat, safety_score |-> p[1], category_percentile |-> p[2],
         incident_count |-> Len(cat_df), trend |-> trend]

\* calculate_score(lat, lon, radius_km) on the store and the clock as they are
calculate_score(key, table, today, bench) ==
    LET lat == key[1]
        lon == key[2]
        radius_km == key[3]
        df0 == SelectSeq(table, LAMBDA r : InQuery(r, lat, lon, radius_km, today))
        df == SelectSeq(df0, LAMBDA r : InRadius(r, lat, lon, radius_km))
        df_current == SelectSeq(df, LAMBDA r : days_old(r, today) <= YearDays)
        p == calculate_percentile_score(SumSeq(Scores(df_current, today)),
                                        bench.overall_distribution)
        current_score == IF df_current # <<>> THEN p[1] ELSE 1000
        cats == IF df_current = <<>> THEN {}
                ELSE {CategoryEntry(df_current, cat, today, bench) :
                        cat \in {c \in WeightKeys :
                                   \E i \in 1..Len(df_current) : df_current[i].category = c}}
        \* the dates of the model have no hour: local midnight, in the night half
        day_safety == IF df_current = <<>> THEN 1000
                      ELSE calculate_percentile_score(0, bench.overall_distribution)[1]
        night_safety == IF df_current = <<>> THEN 1000
                        ELSE calculate_percentile_score(
                                 2 * SumSeq(Scores(df_current, today)),
                                 bench.overall_distribution)[1]
    IN  IF df0 = <<>> THEN BaseResponse
        ELSE IF df = <<>> THEN BaseResponse
        \* pd.to_datetime(df['date'], format='mixed') raises on the text "None"
        ELSE IF \E i \in 1..Len(df) : df[i].date = NoneDate THEN Raised
        ELSE Response(
                 current_score,
                 IF df_current # <<>> THEN p[2] ELSE 0,
                 [i \in 1..10 |-> HistoryEntry(df, i - 1, today, bench)],
                 cats,
                 RiskTags(current_score, day_safety, night_safety, cats))

----------------------------------------------------------------------------
(* The result cache: functools.lru_cache(maxsize) around calculate_score *)

CachedKeys(c) == {c[i].key : i \in 1..Len(c)}
CacheIndex(c, k) == CHOOSE i \in 1..Len(c) : c[i].key = k
\* a lookup that answers with the newest entry, whatever its key
CacheGetLast(c, k) == c[Len(c)].res
CacheGet(c, k) == c[CacheIndex(c, k)].res

Without(q, i) == [j \in 1..(Len(q) - 1) |-> IF j < i THEN q[j] ELSE q[j + 1]]

\* a hit leaves the entry where it is
NoTouch(c, k) == c

\* a hit moves the entry to the most recently used end
Touch(c, k) == LET i == CacheIndex(c, k) IN Append(Without(c, i), c[i])

\* storing a result without looking whether the key has been cached meanwhile
PutBlind(c, k, res) ==
    IF Len(c) >= MaxSize THEN Append(Tail(c), [key |-> k, res |-> res])
    ELSE Append(c, [key |-> k, res |-> res])

\* after the call: a key cached meanwhile is left alone; a full cache gives up
\* its least recently used entry
Put(c, k, res) ==
    IF k \in CachedKeys(c) THEN c
    ELSE IF Len(c) >= MaxSize THEN Append(Tail(c), [key |-> k, res |-> res])
    ELSE Append(c, [key |-> k, res |-> res])

\* the order of last use, after a use of k
Use(q, k) ==
    Append(SelectSeq(q, LAMBDA x : x # k), k)

----------------------------------------------------------------------------
(* The server: worker threads calling calculate_score(lat, lon) *)

Threads == {"w1", "w2"}

\* radius_km of every call the API makes
Radius == 1
\* the argument tuples the requests carry: one more than the cache holds
QueryKeys == {<<i, i, Radius>> : i \in 1..(MaxSize + 1)}
NoKey == <<0, 0, 0>>

\* pc: idle, called (missed the cache, about to query the store), computed
\* (has its response, about to store it), done (returned).  queried: the call
\* queried the store.  kept: the key has stayed cached since the call returned.
Idle == [pc |-> "idle", key |-> NoKey, res |-> Raised, queried |-> FALSE,
         kept |-> FALSE]

\* an input directory for the scoring runs: an assault at (1,1) and an old one
\* at (2,2), an undated homicide at (3,3) and a dated one at (1,1)
OldDay == 100
ScoreDir ==
    [csv |-> <<[EVENT_UNIQUE_ID |-> "E1", LAT_WGS84 |-> 1, LONG_WGS84 |-> 1,
                OCC_DATE |-> OccDay, malformed |-> FALSE],
               [EVENT_UNIQUE_ID |-> "E2", LAT_WGS84 |-> 2, LONG_WGS84 |-> 2,
                OCC_DATE |-> OldDay, malformed |-> FALSE]>>,
     geo1 |-> <<[gtype |-> "Point", coordinates |-> <<3, 3>>,
                 OCC_DATE |-> NaN, EVENT_UNIQUE_ID |-> "E3"]>>,
     geo2 |-> <<[gtype |-> "Point", coordinates |-> <<1, 1>>,
                 OCC_DATE |-> OccDay, EVENT_UNIQUE_ID |-> "E4"]>>]

\* the day the behaviours start, and the days the clock advances at a time
Today0 == 3800
TickDays == 400

\* a store an earlier run over other inputs has left
SeedRow == Row("E1", 2000, 2, 2, "Assault", "assault.csv")
SeedStores == {<<>>, <<SeedRow>>}

InitScoring ==
    /\ now = Today0
    /\ ticks = 0
    /\ benchFile = "v1"
    /\ BENCHMARKS = load_benchmarks("v1")
    /\ cache = <<>>
    /\ th = [t \in Threads |-> Idle]
    /\ used = <<>>

\* nothing has been requested or called yet
NoCoords == <<NaN, NaN>>
NoRequest == [endpoint |-> "none", pincode |-> <<>>, coords |-> NoCoords]
NoReply ==
    [status |-> 0, detail |-> "", pincode |-> <<>>, coordinates |-> NoCoords,
     lookups |-> <<>>, calls |-> <<>>, body |-> Raised]
NoArgs == [fn |-> "none"]
NoResult == [fn |-> "none"]
InitCalls ==
    /\ request = NoRequest
    /\ reply = NoReply
    /\ args = NoArgs
    /\ result = NoResult

\* run_download has not been started
NoDownload ==
    /\ step = "idle"
    /\ dset = 0
    /\ offset = 0
    /\ all_features = <<>>
    /\ pages = <<>>
    /\ processed = <<>>
    /\ files = {}
    /\ analyzed = {}
    /\ metadata = [datasets |-> <<>>, written |-> FALSE]

Init ==
    /\ data \in DataDirs
    /\ crimes \in SeedStores
    /\ runs = 0
    /\ crashed = FALSE
    /\ InitScoring
    /\ InitCalls
    /\ NoDownload

InitScore ==
    /\ data = ScoreDir
    /\ crimes = <<>>
    /\ runs = 0
    /\ crashed = FALSE
    /\ InitScoring
    /\ InitCalls
    /\ NoDownload

\* python ingest_data.py
RunMain ==
    /\ runs < MaxRuns
    /\ LET r == main(data, crimes)
       IN  /\ crimes' = r.table
           /\ crashed' = r.raised
    /\ runs' = runs + 1
    /\ UNCHANGED <<data, scoreVars, callVars, downloadVars>>

\* time passes
Tick ==
    /\ ticks < MaxTicks
    /\ now' = now + TickDays
    /\ ticks' = ticks + 1
    /\ UNCHANGED <<ingestVars, benchFile, BENCHMARKS, cache, th, used, callVars, downloadVars>>

\* generate_grid_benchmarks.py rewrites benchmarks.json; the running server
\* keeps the baseline it loaded
Regenerate ==
    /\ \E v \in BenchVersions \ {benchFile} : benchFile' = v
    /\ UNCHANGED <<ingestVars, now, ticks, BENCHMARKS, cache, th, used, callVars, downloadVars>>

\* the wrapper looks the key up: a hit returns the cached result
Call(t, k) ==
    /\ th[t].pc \in {"idle", "done"}
    /\ IF k \in CachedKeys(cache)
       THEN /\ th' = [th EXCEPT ![t] = [pc |-> "done", key |-> k,
                                        res |-> CacheGet(cache, k),
                                        queried |-> FALSE, kept |-> TRUE]]
            /\ cache' = Touch(cache, k)
            /\ used' = Use(used, k)
       ELSE /\ th' = [th EXCEPT ![t] = [pc |-> "called", key |-> k, res |-> Raised,
                                        queried |-> FALSE, kept |-> FALSE]]
            /\ UNCHANGED <<cache, used>>
    /\ UNCHANGED <<ingestVars, now, ticks, benchFile, BENCHMARKS, callVars, downloadVars>>

\* the function body: query the store, build the response
Query(t) ==
    /\ th[t].pc = "called"
    /\ th' = [th EXCEPT ![t].pc = "computed",
                        ![t].res = calculate_score(th[t].key, crimes, now, BENCHMARKS),
                        ![t].queried = TRUE]
    /\ UNCHANGED <<ingestVars, now, ticks, benchFile, BENCHMARKS, cache, used, callVars, downloadVars>>

\* the wrapper stores the result and returns it; an exception is not cached.
\* A done thread whose key is evicted here no longer has its key cached.
Store(t) ==
    /\ th[t].pc = "computed"
    /\ LET k == th[t].key
           res == th[t].res
           c == IF res.ok THEN Put(cache, k, res) ELSE cache
           gone == CachedKeys(cache) \ CachedKeys(c)
       IN  /\ cache' = c
           /\ used' = IF res.ok /\ k \notin CachedKeys(cache) THEN Use(used, k) ELSE used
           /\ th' = [u \in Threads |->
                        IF u = t THEN [th[t] EXCEPT !.pc = "done", !.kept = res.ok]
                        ELSE IF th[u].key \in gone THEN [th[u] EXCEPT !.kept = FALSE]
                        ELSE th[u]]
    /\ UNCHANGED <<ingestVars, now, ticks, benchFile, BENCHMARKS, callVars, downloadVars>>

----------------------------------------------------------------------------
(* The API server (main.py): one request handled at a time.  A postal code  *)
(* is a sequence of characters.                                             *)

\* str.upper() on the characters the requests use
upper(ch) ==
    CASE ch = "m" -> "M"
      [] ch = "v" -> "V"
      [] ch = "t" -> "T"
      [] ch = "c" -> "C"
      [] ch = "z" -> "Z"
      [] OTHER -> ch

\* pincode.replace(" ", "").upper()
Normalize(pincode) ==
    LET kept == SelectSeq(pincode, LAMBDA ch : ch # " ")
    IN  [i \in 1..Len(kept) |-> upper(kept[i])]

\* pincode[:3]
FirstThree(code) == SubSeq(code, 1, IF Len(code) < 3 THEN Len(code) ELSE 3)

\* the forward sortation areas the geocoder's dataset knows, with the grid
\* positions it gives for them
M5V == <<"M", "5", "V">>
M4C == <<"M", "4", "C">>
M6G == <<"M", "6", "G">>

\* nomi.query_postal_code(code): latitude and longitude are NaN for a code
\* the dataset does not hold
query_postal_code(code) ==
    IF code = M5V THEN [latitude |-> 1, longitude |-> 1]
    ELSE IF code = M4C THEN [latitude |-> 3, longitude |-> 3]
    ELSE IF code = M6G THEN [latitude |-> 2, longitude |-> 2]
    ELSE [latitude |-> NaN, longitude |-> NaN]

\* str(info.latitude) == 'nan'
IsNan(info) == info.latitude = NaN

\* the postal codes the requests carry
Pincodes ==
    {<<"m", "5", "v", " ", "2", "t", "6">>, <<"M", "5", "V", "2", "T", "6">>,
     <<"M", "5", "V">>, <<"m", "4", "c", "1", "A", "1">>, <<"M", "6", "G", "9">>,
     <<"Z", "Z", "Z", "Z", "Z", "Z">>, <<"z", "z", "z">>, <<"M", "5">>,
     <<"M", "5", " ", "V">>, <<>>}

\* scoring.calculate_score(lat, lon) through its cache, in one piece: the
\* result (ok FALSE if the call raised), the cache and the order of use after
CachedCall(c, q, k, table, today, bench) ==
    IF k \in CachedKeys(c)
    THEN [res |-> CacheGet(c, k), cache |-> Touch(c, k), used |-> Use(q, k)]
    ELSE LET res == calculate_score(k, table, today, bench)
         IN  [res |-> res,
              cache |-> IF res.ok THEN Put(c, k, res) ELSE c,
              used |-> IF res.ok THEN Use(q, k) ELSE q]

\* the response of a handler that merges the engine's result into its own
\* fields; an exception of the engine is the framework's status 500
Merged(pincode, coords, lookups, call) ==
    IF call.res.ok
    THEN [status |-> 200, detail |-> "", pincode |-> pincode, coordinates |-> coords,
          lookups |-> lookups, calls |-> <<<<coords[1], coords[2], Radius>>>>,
          body |-> call.res]
    ELSE [status |-> 500, detail |-> "Internal Server Error", pincode |-> <<>>,
          coordinates |-> NoCoords, lookups |-> lookups,
          calls |-> <<<<coords[1], coords[2], Radius>>>>, body |-> Raised]

InvalidDetail == "Invalid postal code or coordinates not found."

\* get_score(pincode): the reply, and the cache after it
get_score(raw, c, q, table, today, bench) ==
    LET pincode == Normalize(raw)
        info1 == query_postal_code(pincode)
        retry == IsNan(info1) /\ Len(pincode) > 3
        info == IF retry THEN query_postal_code(FirstThree(pincode)) ELSE info1
        lookups == IF retry THEN <<pincode, FirstThree(pincode)>> ELSE <<pincode>>
        coords == <<info.latitude, info.longitude>>
        call == CachedCall(c, q, <<coords[1], coords[2], Radius>>, table, today, bench)
    IN  IF IsNan(info)
        THEN [reply |-> [status |-> 400, detail |-> InvalidDetail, pincode |-> <<>>,
                         coordinates |-> NoCoords, lookups |-> lookups,
                         calls |-> <<>>, body |-> Raised],
              cache |-> c, used |-> q]
        ELSE [reply |-> Merged(pincode, coords, lookups, call),
              cache |-> call.cache, used |-> call.used]

\* get_score_by_coords(lat, lon)
get_score_by_coords(coords, c, q, table, today, bench) ==
    LET call == CachedCall(c, q, <<coords[1], coords[2], Radius>>, table, today, bench)
    IN  [reply |-> Merged(<<"N", "/", "A">>, coords, <<>>, call),
         cache |-> call.cache, used |-> call.used]

\* the names module scoring defines
ScoringNames ==
    {"DB_NAME", "WEIGHTS", "get_db_connection", "load_benchmarks", "BENCHMARKS",
     "percentile_to_safety_score", "calculate_percentile_score", "calculate_score"}

\* get_heatmap(): scoring.get_heatmap_data() is an AttributeError unless
\* module scoring defines the name
get_heatmap ==
    IF "get_heatmap_data" \in ScoringNames
    THEN [NoReply EXCEPT !.status = 200]
    ELSE [NoReply EXCEPT !.status = 500, !.detail = "Internal Server Error"]

\* GET /score?pincode=...
GetScore(p) ==
    /\ LET r == get_score(p, cache, used, crimes, now, BENCHMARKS)
       IN  /\ reply' = r.reply
           /\ cache' = r.cache
           /\ used' = r.used
    /\ request' = [endpoint |-> "/score", pincode |-> p, coords |-> NoCoords]
    /\ UNCHANGED <<ingestVars, now, ticks, benchFile, BENCHMARKS, th, args, result, downloadVars>>

\* GET /score/coords?lat=..&lon=..
GetScoreByCoords(k) ==
    /\ LET r == get_score_by_coords(<<k[1], k[2]>>, cache, used, crimes, now, BENCHMARKS)
       IN  /\ reply' = r.reply
           /\ cache' = r.cache
           /\ used' = r.used
    /\ request' = [endpoint |-> "/score/coords", pincode |-> <<>>,
                   coords |-> <<k[1], k[2]>>]
    /\ UNCHANGED <<ingestVars, now, ticks, benchFile, BENCHMARKS, th, args, result, downloadVars>>

\* GET /heatmap
GetHeatmap ==
    /\ reply' = get_heatmap
    /\ request' = [endpoint |-> "/heatmap", pincode |-> <<>>, coords |-> NoCoords]
    /\ UNCHANGED <<ingestVars, scoreVars, args, result, downloadVars>>

----------------------------------------------------------------------------
(* Direct calls of the percentile functions *)

\* the sorted ascending arrays of up to MaxDistLen values
RECURSIVE SortedSeqs(_)
SortedSeqs(n) ==
    IF n = 0 THEN {<<>>}
    ELSE LET shorter == SortedSeqs(n - 1)
             longest == {q \in shorter : Len(q) = n - 1}
         IN  shorter \cup
             {Append(pr[1], pr[2]) :
                 pr \in {x \in longest \X (0..MaxValue) :
                            x[1] = <<>> \/ x[1][Len(x[1])] <= x[2]}}
Distributions == SortedSeqs(MaxDistLen)

LookupArgs ==
    [fn : {"calculate_percentile_score"}, raw_score : -1..(MaxValue + 1),
     distribution : Distributions]
\* the percentile n/d and the next one on the grid of step 1/d
MappingArgs ==
    UNION {[fn : {"percentile_to_safety_score"}, n : 0..(100 * d - 1), d : {d}] :
             d \in 1..MaxDen}

InitPct ==
    /\ data = ScoreDir
    /\ crimes = <<>>
    /\ runs = 0
    /\ crashed = FALSE
    /\ InitScoring
    /\ request = NoRequest
    /\ reply = NoReply
    /\ args \in LookupArgs \cup MappingArgs
    /\ result = NoResult
    /\ NoDownload

\* calculate_percentile_score(raw_score, distribution)
CallLookup ==
    /\ args.fn = "calculate_percentile_score"
    /\ result.fn = "none"
    /\ result' = [fn |-> args.fn,
                  value |-> calculate_percentile_score(args.raw_score, args.distribution)]
    /\ UNCHANGED <<ingestVars, scoreVars, request, reply, args, downloadVars>>

\* percentile_to_safety_score(n/d) and percentile_to_safety_score((n + 1)/d)
CallMapping ==
    /\ args.fn = "percentile_to_safety_score"
    /\ result.fn = "none"
    /\ result' = [fn |-> args.fn,
                  value |-> percentile_to_safety_score(args.n, args.d),
                  next |-> percentile_to_safety_score(args.n + 1, args.d)]
    /\ UNCHANGED <<ingestVars, scoreVars, request, reply, args, downloadVars>>

----------------------------------------------------------------------------
(* forecasting.py.  Scores and forecasts are in tenths, RMSEs in hundredths. *)
(* What statsmodels, scikit-learn and numpy compute for a history is an      *)
(* outcome the library is free to give: an exception, or a forecast with its *)
(* RMSE.                                                                     *)

\* the models list of select_best_forecast, in its order (ARIMA is not in it)
Models ==
    <<"Seasonal Decomp", "Holt (Exp Smoothing)", "Polynomial Reg",
      "Linear Regression", "Moving Average">>
ModelNames == {Models[i] : i \in 1..Len(Models)}

\* a fit function returned None, or raised
NoFit == [ok |-> FALSE, predicted_score |-> 0, rmse |-> 0]

\* round(max(0, min(100, forecast_val)), 1)
Clamp(forecast_val) ==
    IF forecast_val < 0 THEN 0 ELSE IF forecast_val > 1000 THEN 1000 ELSE forecast_val

\* the dict a fit function returns from what the library computed
Fitted(out) ==
    IF out.raises THEN NoFit
    ELSE [ok |-> TRUE, predicted_score |-> Clamp(out.forecast_val), rmse |-> out.rmse]

fit_holt(history, out) == IF Len(history) < 3 THEN NoFit ELSE Fitted(out)

fit_linear_regression(history, out) == IF Len(history) < 3 THEN NoFit ELSE Fitted(out)

fit_polynomial(history, out) == IF Len(history) < 4 THEN NoFit ELSE Fitted(out)

fit_seasonal_decompose(history, out) == IF Len(history) < 6 THEN NoFit ELSE Fitted(out)

\* window = 3: the forecast is the mean of the last three scores; the RMSE is
\* 5.0 when there is no in-sample prediction to compare, and otherwise what
\* mean_squared_error gives for the in-sample averages
fit_moving_average(history, out) ==
    IF Len(history) < 3 THEN NoFit
    ELSE LET n == Len(history)
             recent == history[n - 2] + history[n - 1] + history[n]
         IN  Fitted([raises |-> out.raises,
                     forecast_val |-> RoundTenths(recent, 30),
                     rmse |-> IF n > 3 THEN out.rmse ELSE 500])

\* fit_func(history, steps=1) for the model of that name
Fit(name, history, lib) ==
    CASE name = "Seasonal Decomp" -> fit_seasonal_decompose(history, lib[name])
      [] name = "Holt (Exp Smoothing)" -> fit_holt(history, lib[name])
      [] name = "Polynomial Reg" -> fit_polynomial(history, lib[name])
      [] name = "Linear Regression" -> fit_linear_regression(history, lib[name])
      [] name = "Moving Average" -> fit_moving_average(history, lib[name])

\* the results list: the models that gave a forecast, in the order of Models
Results(history, lib) ==
    SelectSeq([i \in 1..Len(Models) |->
                  [model |-> Models[i], fit |-> Fit(Models[i], history, lib)]],
              LAMBDA r : r.fit.ok)

\* the first result of the list, whatever its RMSE
BestFirst(results) == results[1]

\* min(results, key=lambda x: x['rmse']): the first result of the least RMSE
Best(results) ==
    results[CHOOSE i \in 1..Len(results) :
                /\ \A j \in 1..Len(results) : results[i].fit.rmse <= results[j].fit.rmse
                /\ \A j \in 1..(i - 1) : results[j].fit.rmse > results[i].fit.rmse]

Forecast(predicted, trend, model, suffix, rmse) ==
    [predicted_score |-> predicted, trend_direction |-> trend,
     model_used |-> [model |-> model, suffix |-> suffix], rmse |-> rmse]

\* the default without the last score
InsufficientDataFifty(history) ==
    Forecast(500, "Stable", "Insufficient Data", "", 0)

\* the default for insufficient data: the last score, or 50 without one
InsufficientData(history) ==
    Forecast(IF history # <<>> THEN history[Len(history)] ELSE 500,
             "Stable", "Insufficient Data", "", 0)

\* the fallback with a fixed score
FallbackFifty(history) == Forecast(500, "Stable", "Fallback", "", 0)

\* no model gave a forecast: the last value
Fallback(history) == Forecast(history[Len(history)], "Stable", "Fallback", "", 0)

\* the override without the look at the prediction
trend_override_any(recent_diff, predicted, current) ==
    IF recent_diff > 100 THEN "Improving"
    ELSE IF recent_diff < -100 THEN "Declining"
    ELSE "None"

\* the recent trend priority: "None", or the trend that replaces the model's
trend_override(recent_diff, predicted, current) ==
    IF recent_diff > 100
    THEN (IF predicted < current THEN "Improving" ELSE "None")
    ELSE IF recent_diff < -100
    THEN (IF predicted > current THEN "Declining" ELSE "None")
    ELSE "None"

\* the test with two entries taken for enough
TooShortTwo(history) == history = <<>> \/ Len(history) < 2

\* not history or len(history) < 3
TooShort(history) == history = <<>> \/ Len(history) < 3

select_best_forecast(history, lib) ==
    IF TooShort(history) THEN InsufficientData(history)
    ELSE LET results == Results(history, lib)
         IN  IF results = <<>> THEN Fallback(history)
             ELSE LET best == Best(results)
                      current == history[Len(history)]
                      previous == IF Len(history) > 1 THEN history[Len(history) - 1]
                                  ELSE current
                      recent_diff == current - previous
                      override == trend_override(recent_diff, best.fit.predicted_score,
                                                 current)
                      predicted == IF override # "None" THEN current
                                   ELSE best.fit.predicted_score
                      trend == IF override # "None" THEN override
                               ELSE IF predicted > current + 20 THEN "Improving"
                               ELSE IF predicted < current - 20 THEN "Declining"
                               ELSE "Stable"
                  IN  Forecast(predicted, trend, best.model,
                               IF override # "None" THEN " (Adjusted)" ELSE "",
                               best.fit.rmse)

\* the histories of up to MaxHist yearly scores; the entries before the last
\* three are all the same score
RecentScores == {600, 700, 750}
Histories ==
    UNION {[1..n -> RecentScores] : n \in 0..3}
    \cup {[i \in 1..n |-> IF i <= n - 3 THEN 500 ELSE tl[i - (n - 3)]] :
             n \in 4..MaxHist, tl \in [1..3 -> RecentScores]}

\* what the libraries can give for one model
Outcomes ==
    {[raises |-> TRUE, forecast_val |-> 0, rmse |-> 0]}
    \cup [raises : {FALSE}, forecast_val : {400, 700, 1100}, rmse : {100, 200}]
\* the moving average computes its forecast itself
AverageOutcomes == {out \in Outcomes : out.forecast_val \in {0, 400}}
LibOutcomes ==
    {lib \in [ModelNames -> Outcomes] : lib["Moving Average"] \in AverageOutcomes}

ForecastArgs == [fn : {"select_best_forecast"}, history : Histories, lib : LibOutcomes]

InitForecast ==
    /\ data = ScoreDir
    /\ crimes = <<>>
    /\ runs = 0
    /\ crashed = FALSE
    /\ InitScoring
    /\ request = NoRequest
    /\ reply = NoReply
    /\ args \in ForecastArgs
    /\ result = NoResult
    /\ NoDownload

\* select_best_forecast(history)
CallForecast ==
    /\ args.fn = "select_best_forecast"
    /\ result.fn = "none"
    /\ result' = [fn |-> args.fn, value |-> select_best_forecast(args.history, args.lib)]
    /\ UNCHANGED <<ingestVars, scoreVars, request, reply, args, downloadVars>>

----------------------------------------------------------------------------
(* Direct calls of calculate_score on the stores ingestion can leave: rows   *)
(* of three files, aged 100 days, 500 days or more than ten years, at the   *)
(* query point, beside it (inside the bounding box, outside the radius) or  *)
(* far from it                                                              *)

\* a category and the file CATEGORY_MAPPING derives it from; "Hate Crime" is
\* not a key of WEIGHTS
StoredKinds ==
    {[category |-> "Assault", file |-> "assault.csv"],
     [category |-> "Homicide", file |-> "homicides_a.geojson"],
     [category |-> "Hate Crime", file |-> "hate_crimes.csv"]}
PriorDay == OccDay - 400
StoredDays == {OccDay, PriorDay, OldDay}
StoredPlaces == {<<1, 1>>, <<2, 2>>, <<5, 5>>}
IncidentIds == <<"E1", "E2", "E3", "E4", "E5">>

\* what a stored row can be: any category at any age at the query point, or a
\* recent Assault at any of the places
StoredShapes ==
    {<<d, <<1, 1>>, k>> : d \in StoredDays, k \in StoredKinds}
        \cup {<<OccDay, p, [category |-> "Assault", file |-> "assault.csv"]>> :
                  p \in StoredPlaces}

\* the stores of up to MaxIncidents rows, their keys distinct
Stores ==
    UNION {{[i \in 1..n |-> Row(IncidentIds[i], f[i][1], f[i][2][1], f[i][2][2],
                                 f[i][3].category, f[i][3].file)] :
               f \in [1..n -> StoredShapes]} :
           n \in 0..MaxIncidents}

ScoreArgs ==
    [fn : {"calculate_score"}, key : {<<1, 1, Radius>>}, table : Stores,
     today : {Today0}, bench : {load_benchmarks("v1")}]

InitCalc ==
    /\ data = ScoreDir
    /\ crimes = <<>>
    /\ runs = 0
    /\ crashed = FALSE
    /\ InitScoring
    /\ request = NoRequest
    /\ reply = NoReply
    /\ args \in ScoreArgs
    /\ result = NoResult
    /\ NoDownload

\* calculate_score(lat, lon)
CallScore ==
    /\ args.fn = "calculate_score"
    /\ result.fn = "none"
    /\ result' = [fn |-> args.fn,
                  value |-> calculate_score(args.key, args.table, args.today, args.bench)]
    /\ UNCHANGED <<ingestVars, scoreVars, request, reply, args, downloadVars>>

----------------------------------------------------------------------------
(* Acquisition (ingest_data.py --download): run_download resolves, downloads *)
(* and analyzes the datasets one after the other.  What the portal answers  *)
(* to a request is chosen when the request is made.  A page of features is  *)
(* kept as a chunk: the offset it was requested at and its length.          *)

\* DATASETS, in the order of the dict
DatasetNames ==
    <<"Shooting_and_Firearm_Discharges", "Homicides", "Assault", "Auto_Theft",
      "Bicycle_Thefts", "Break_and_Enter", "Robbery", "Theft_From_Motor_Vehicle",
      "Theft_Over">>

record_count == 2000

\* the metadata lookup: a document with a url, one without, or a failed request
ResolveAnswers == {"url", "no url", "raises"}

\* get_service_url: data.get("url"), None when the request or its parsing raises
get_service_url(answer) == IF answer = "url" THEN "url" ELSE "None"

\* the answer to one page request: the request (or res.json()) raises, or a
\* status comes back, with n features in the body when it is 200
PageAnswers ==
    [raises : {TRUE}, status : {0}, n : {0}]
    \cup [raises : {FALSE}, status : {500}, n : {0}]
    \cup [raises : {FALSE}, status : {200}, n : {0, 1, record_count - 1, record_count}]

\* the page has features to accumulate
HasFeatures(answer) == ~answer.raises /\ answer.status = 200 /\ answer.n > 0

\* the break statements of the while loop
LeavesLoop(answer) == ~HasFeatures(answer) \/ answer.n < record_count

\* all_features.extend(features)
Extended(acc, off, answer) ==
    IF HasFeatures(answer) THEN Append(acc, [first |-> off, n |-> answer.n]) ELSE acc

\* the offset left as it was
NextOffsetSame(off, answer) == off

\* offset += len(features)
NextOffset(off, answer) == off + answer.n

\* the for loop of run_download left at the first dataset that gives no file
AdvanceToWrite(d) == [step |-> "write", dset |-> d]

\* the for loop of run_download goes to its next dataset, or ends
Advance(d) ==
    IF d < Len(DatasetNames) THEN [step |-> "resolve", dset |-> d + 1]
    ELSE [step |-> "write", dset |-> d]

\* run_download()
RunDownload ==
    /\ step = "idle"
    /\ step' = "resolve"
    /\ dset' = 1
    /\ metadata' = [datasets |-> <<>>, written |-> FALSE]
    /\ UNCHANGED <<ingestVars, scoreVars, callVars, offset, all_features, pages,
                   processed, files, analyzed>>

\* print(f"Processing {name}..."); service_url = get_service_url(item_id); with
\* a url, download_csv starts
Resolve(answer) ==
    /\ step = "resolve"
    /\ processed' = Append(processed, DatasetNames[dset])
    /\ IF get_service_url(answer) # "None"
       THEN /\ step' = "page"
            /\ dset' = dset
            /\ offset' = 0
            /\ all_features' = <<>>
            /\ pages' = <<>>
       ELSE /\ step' = Advance(dset).step
            /\ dset' = Advance(dset).dset
            /\ UNCHANGED <<offset, all_features, pages>>
    /\ UNCHANGED <<ingestVars, scoreVars, callVars, files, analyzed, metadata>>

\* one iteration of the while loop of download_csv.  After MaxPages pages the
\* service sends one that ends the loop.
FetchPage(answer) ==
    /\ step = "page"
    /\ Len(pages) < MaxPages \/ LeavesLoop(answer)
    /\ pages' = Append(pages, [offset |-> offset, answer |-> answer])
    /\ all_features' = Extended(all_features, offset, answer)
    /\ IF LeavesLoop(answer)
       THEN step' = "convert" /\ offset' = offset
       ELSE step' = "page" /\ offset' = NextOffset(offset, answer)
    /\ UNCHANGED <<ingestVars, scoreVars, callVars, dset, processed, files, analyzed,
                   metadata>>

\* after the loop: None without features, else the DataFrame is built and saved
\* as data/{name}.csv, or that raises and None is returned
Convert(saved) ==
    /\ step = "convert"
    /\ IF all_features # <<>> /\ saved
       THEN /\ files' = files \cup {DatasetNames[dset]}
            /\ step' = "analyze"
            /\ dset' = dset
       ELSE /\ step' = Advance(dset).step
            /\ dset' = Advance(dset).dset
            /\ files' = files
    /\ UNCHANGED <<ingestVars, scoreVars, callVars, offset, all_features, pages, processed,
                   analyzed, metadata>>

\* info = analyze_file(name, file_path); if info: metadata["datasets"].append(info)
Analyze(info) ==
    /\ step = "analyze"
    /\ IF info
       THEN /\ analyzed' = analyzed \cup {DatasetNames[dset]}
            /\ metadata' = [metadata EXCEPT !.datasets = Append(@, DatasetNames[dset])]
       ELSE UNCHANGED <<analyzed, metadata>>
    /\ step' = Advance(dset).step
    /\ dset' = Advance(dset).dset
    /\ UNCHANGED <<ingestVars, scoreVars, callVars, offset, all_features, pages, processed,
                   files>>

\* with open(METADATA_FILE, 'w') as f: json.dump(metadata, f, indent=2)
WriteMetadata ==
    /\ step = "write"
    /\ metadata' = [metadata EXCEPT !.written = TRUE]
    /\ step' = "done"
    /\ UNCHANGED <<ingestVars, scoreVars, callVars, dset, offset, all_features, pages,
                   processed, files, analyzed>>

AcquireNext ==
    \/ RunDownload
    \/ \E answer \in ResolveAnswers : Resolve(answer)
    \/ \E answer \in PageAnswers : FetchPage(answer)
    \/ \E saved \in BOOLEAN : Convert(saved)
    \/ \E info \in BOOLEAN : Analyze(info)
    \/ WriteMetadata

\* the server started without a readable benchmarks.json
InitCold ==
    /\ data = ScoreDir
    /\ crimes = <<>>
    /\ runs = 0
    /\ crashed = FALSE
    /\ now = Today0
    /\ ticks = 0
    /\ benchFile = "missing"
    /\ BENCHMARKS = load_benchmarks("missing")
    /\ cache = <<>>
    /\ th = [t \in Threads |-> Idle]
    /\ used = <<>>
    /\ InitCalls
    /\ NoDownload

Next == RunMain

ColdNext ==
    \/ RunMain
    \/ Tick
    \/ Regenerate
    \/ \E k \in QueryKeys : GetScoreByCoords(k)

PctNext == CallLookup \/ CallMapping

ApiNext ==
    \/ RunMain
    \/ \E p \in Pincodes : GetScore(p)
    \/ \E k \in QueryKeys : GetScoreByCoords(k)
    \/ GetHeatmap

ScoreNext ==
    \/ RunMain
    \/ Tick
    \/ Regenerate
    \/ \E t \in Threads, k \in QueryKeys : Call(t, k)
    \/ \E t \in Threads : Query(t)
    \/ \E t \in Threads : Store(t)

\* the ingestion runs
Spec == Init /\ [][Next]_vars

\* the server, with ingestion, the clock and the baseline generator beside it
ScoreSpec == InitScore /\ [][ScoreNext]_vars

\* the API of a server that found no benchmarks.json when it started
ColdSpec == InitCold /\ [][ColdNext]_vars

\* one run of run_download
AcquireSpec == InitScore /\ [][AcquireNext]_vars

\* direct calls of calculate_score
CalcSpec == InitCalc /\ [][CallScore]_vars

\* direct calls of select_best_forecast
ForecastSpec == InitForecast /\ [][CallForecast]_vars

\* direct calls of calculate_percentile_score and percentile_to_safety_score
PctSpec == InitPct /\ [][PctNext]_vars

\* the API, its requests handled one at a time, with ingestion beside it
ApiSpec == InitScore /\ [][ApiNext]_vars

----------------------------------------------------------------------------
(* Properties of the ingestion runs (Spec) *)

\* the records main() hands to the store, file after file
AllRecords(d) ==
    CsvRecords(d.csv, CsvName) \o GeoRecords(d.geo1, GeoNames[1])
        \o GeoRecords(d.geo2, GeoNames[2])

\* the store held the seed row before the first run (the store only grows)
StartedSeeded == crimes # <<>> /\ crimes[1] = SeedRow

\* the row checks as the claims word them: the row is well formed, its latitude
\* and longitude are present and non-zero, its date is there to parse
PassesRowChecks(row) ==
    /\ ~row.malformed
    /\ row.LAT_WGS84 \notin {NaN, 0} /\ row.LONG_WGS84 \notin {NaN, 0}
    /\ row.OCC_DATE # NaN

KeptRows(rows) == {i \in 1..Len(rows) : PassesRowChecks(rows[i])}

\* C1: ingestion is idempotent: a run of main() that follows an earlier run over
\* the same input files leaves the table crimes as it was, row for row.
C1_Idempotent ==
    [][(runs >= 1 /\ runs' = runs + 1) => crimes' = crimes]_vars

\* a second run has happened over a store that holds rows of two files
C1_Witness ==
    /\ runs = 2
    /\ \E i, j \in 1..Len(crimes) :
          /\ crimes[i].source_file = CsvName
          /\ crimes[j].source_file = GeoNames[1]

\* C2: every stored row has lat and lon present and non-zero, whichever path
\* stored it.
C2_LatLonNonZero ==
    \A i \in 1..Len(crimes) :
        /\ crimes[i].lat # NaN /\ crimes[i].lat # 0
        /\ crimes[i].lon # NaN /\ crimes[i].lon # 0

\* C3: the store is append-only and the first writer of a key wins: every step
\* keeps the stored rows, with all their values, as a prefix of the table, never
\* stores a second row under a stored key, and a run ends in an exception only
\* when a GeoJSON file holds a null geometry (never because of a duplicate).
C3_AppendOnly ==
    [][/\ Len(crimes') >= Len(crimes)
       /\ SubSeq(crimes', 1, Len(crimes)) = crimes
       /\ \A i, j \in 1..Len(crimes') :
             crimes'[i].event_unique_id = crimes'[j].event_unique_id => i = j
       /\ crashed' => (GeoFileRaises(data.geo1) \/ GeoFileRaises(data.geo2))]_vars

\* after a run, an input record whose key was already stored differs from the
\* stored row, which is still there
C3_Witness ==
    /\ runs >= 1
    /\ \E n \in 1..Len(AllRecords(data)), i \in 1..Len(crimes) :
          /\ crimes[i].event_unique_id = AllRecords(data)[n].event_unique_id
          /\ crimes[i] # AllRecords(data)[n]

\* a record of a valid row: coordinates present and non-zero, date parsed
ValidRecord(r) ==
    /\ r.lat # NaN /\ r.lat # 0 /\ r.lon # NaN /\ r.lon # 0
    /\ r.date # NoneDate

\* C4: an error on one row or feature skips only that one: after a run, every
\* valid row and feature of every file has its key stored.
C4_RowIsolation ==
    runs >= 1 =>
        \A n \in 1..Len(AllRecords(data)) :
            ValidRecord(AllRecords(data)[n])
            => HasKey(crimes, AllRecords(data)[n].event_unique_id)

\* C5: the date of every stored row is the text of a parsed timestamp, never the
\* text of a failed parse.
C5_DateParsed ==
    \A i \in 1..Len(crimes) : crimes[i].date # NoneDate

\* the one tabular file has been ingested, once, into an empty store, and there
\* was nothing else to ingest
CsvOnlyRun ==
    /\ runs = 1
    /\ ~StartedSeeded
    /\ data.geo1 = <<>> /\ data.geo2 = <<>>

\* C6 as claimed: a tabular file ingested into an empty store stores as many rows
\* as pass the row checks (N rows, K of them without usable coordinates: N - K),
\* here for files whose rows all carry an EVENT_UNIQUE_ID.
C6_StoredEqualsKept ==
    (CsvOnlyRun /\ \A i \in 1..Len(data.csv) : ~IsNaText(data.csv[i].EVENT_UNIQUE_ID))
    => Len(crimes) = Cardinality(KeptRows(data.csv))

\* C6 as amended: it stores as many rows as there are distinct keys among the rows
\* that pass the row checks, which is N - K when their keys differ pairwise.
C6_StoredEqualsDistinctKept ==
    CsvOnlyRun =>
        /\ Len(crimes) =
              Cardinality({Str(CsvEventId(data.csv[i])) : i \in KeptRows(data.csv)})
        /\ (\A i, j \in KeptRows(data.csv) :
               CsvEventId(data.csv[i]) = CsvEventId(data.csv[j]) => i = j)
           => Len(crimes) = Cardinality(KeptRows(data.csv))

\* two rows, one of them with a zero or missing coordinate: one row stored
C6_Witness ==
    /\ CsvOnlyRun
    /\ Len(data.csv) = 2
    /\ Cardinality(KeptRows(data.csv)) = 1
    /\ \E i \in 1..2 : data.csv[i].LAT_WGS84 \in {NaN, 0} \/ data.csv[i].LONG_WGS84 \in {NaN, 0}
    /\ Len(crimes) = 1

----------------------------------------------------------------------------
(* Properties of the server (ScoreSpec) *)

\* thread t begins a call in this step (it was free, and more than its kept
\* flag changes)
Started(t) ==
    /\ th[t].pc \in {"idle", "done"}
    /\ <<th'[t].pc, th'[t].key, th'[t].res, th'[t].queried>>
          # <<th[t].pc, th[t].key, th[t].res, th[t].queried>>

\* C7 as claimed: once a call has returned for a tuple and the key has not been
\* evicted since, a later call with the same tuple returns the identical result
\* without querying the store.
C7_SameAsReturned ==
    [][\A t, u \in Threads :
          (/\ th[u].pc = "done" /\ th[u].kept
           /\ Started(t) /\ th'[t].key = th[u].key)
          => (/\ th'[t].pc = "done"
              /\ ~th'[t].queried
              /\ th'[t].res = th[u].res)]_vars

\* C7 as amended: a call that finds its tuple cached returns the cached result,
\* which is the result the call that populated the entry returned, and does not
\* query the store, whatever has happened to the store, the baseline file and
\* the clock in between.
C7_HitReturnsCached ==
    [][\A t \in Threads :
          /\ (Started(t) /\ th'[t].key \in CachedKeys(cache))
             => (/\ th'[t].pc = "done"
                 /\ ~th'[t].queried
                 /\ \E i \in 1..Len(cache) :
                       cache[i].key = th'[t].key /\ cache[i].res = th'[t].res)
          /\ (th[t].pc = "computed" /\ th'[t].pc = "done"
              /\ th[t].key \notin CachedKeys(cache) /\ th[t].key \in CachedKeys(cache'))
             => \E i \in 1..Len(cache') :
                   cache'[i].key = th[t].key /\ cache'[i].res = th'[t].res]_vars

\* a hit has returned a result that a fresh computation would no longer give
C7_Witness ==
    \E t \in Threads :
        /\ th[t].pc = "done" /\ ~th[t].queried
        /\ th[t].res # calculate_score(th[t].key, crimes, now, BENCHMARKS)

\* the n most recently used keys
MostRecent(q, n) ==
    {q[i] : i \in {j \in 1..Len(q) : j > Len(q) - n}}

\* C8: the cache never holds more than MaxSize entries (1024 in the program) and
\* evicts the least recently used: it holds exactly the MaxSize keys whose last
\* use (insertion or hit) is most recent, least recent first, so after
\* MaxSize + 1 distinct tuples the first one is the one that is gone.
C8_LRU ==
    /\ Len(cache) <= MaxSize
    /\ CachedKeys(cache) = MostRecent(used, MaxSize)
    /\ \A i, j \in 1..Len(cache) :
          i < j => \E a, b \in 1..Len(used) :
                      a < b /\ used[a] = cache[i].key /\ used[b] = cache[j].key

\* MaxSize + 1 distinct tuples have been used: the least recently used is gone
C8_Witness ==
    /\ Len(used) = MaxSize + 1
    /\ Len(cache) = MaxSize
    /\ used[1] \notin CachedKeys(cache)

\* the stores and the days of the server's runs, and the responses
\* calculate_score can give for each tuple
PossibleStores == {<<>>, main(ScoreDir, <<>>).table}
PossibleDays == {Today0 + i * TickDays : i \in 0..MaxTicks}
ResultTable ==
    [k \in QueryKeys |->
        {calculate_score(k, s, d, load_benchmarks("v1")) :
            s \in PossibleStores, d \in PossibleDays}]

NoIncident(key) ==
    ~\E i \in 1..Len(crimes) :
        /\ crimes[i].lat # NaN /\ crimes[i].lon # NaN
        /\ InRadius(crimes[i], key[1], key[2], key[3])
        /\ crimes[i].date # NoneDate
        /\ crimes[i].date <= now
        /\ crimes[i].date >= now - TenYears

\* C10: when the store holds no incident within the radius in the trailing ten
\* years, the call returns normally with current_score 100, overall_percentile 0
\* and an empty category_breakdown.
C10_MissingData ==
    [][\A t \in Threads :
          (th[t].pc = "called" /\ th'[t].pc = "computed" /\ NoIncident(th[t].key))
          => (/\ th'[t].res.ok
              /\ th'[t].res.current_score = 1000
              /\ th'[t].res.overall_percentile = 0
              /\ th'[t].res.category_breakdown = {})]_vars

----------------------------------------------------------------------------
(* Properties of the API (ApiSpec) *)

\* C11: GET /score looks the normalized code up, retries with its first three
\* characters exactly when the full code gave no coordinates and is longer than
\* three characters, answers 400 with the invalid-code message without calling
\* the engine when the code stays unresolved, and otherwise calls the engine
\* exactly once with the resolved coordinates and answers with the pincode and
\* those coordinates.
C11_ScoreFlow ==
    request.endpoint = "/score" =>
        LET code == Normalize(request.pincode)
            full == query_postal_code(code)
            again == full.latitude = NaN /\ Len(code) > 3
            final == IF again THEN query_postal_code(FirstThree(code)) ELSE full
        IN  /\ reply.lookups = IF again THEN <<code, FirstThree(code)>> ELSE <<code>>
            /\ IF final.latitude = NaN
               THEN /\ reply.status = 400
                    /\ reply.detail = "Invalid postal code or coordinates not found."
                    /\ reply.calls = <<>>
               ELSE /\ reply.calls = <<<<final.latitude, final.longitude, Radius>>>>
                    /\ reply.status = 200
                    /\ reply.pincode = code
                    /\ reply.coordinates = <<final.latitude, final.longitude>>

\* C12: GET /heatmap succeeds, in every server state.
C12_HeatmapSucceeds ==
    request.endpoint = "/heatmap" => reply.status = 200

----------------------------------------------------------------------------
(* Properties of the server without a baseline (ColdSpec) *)

\* every score of the response that comes from a percentile lookup is the
\* no-information default 50 (and its percentile 50); a score that comes from
\* no lookup (nothing to score) is 100
DefaultsOnly(body) ==
    /\ <<body.current_score, body.overall_percentile>> \in {<<500, 500>>, <<1000, 0>>}
    /\ \A i \in 1..Len(body.history) :
          body.history[i].safety_score =
              IF body.history[i].incident_count = 0 THEN 1000 ELSE 500
    /\ \A e \in body.category_breakdown :
          e.safety_score = 500 /\ e.category_percentile = 500

\* C14: with the benchmarks file absent or unreadable at startup the module
\* loads with an empty baseline, and every calculate_score call completes
\* without error, every percentile lookup in it giving (50, 50).
C14_NoBaseline ==
    /\ BENCHMARKS = EmptyBaseline
    /\ request.endpoint = "/score/coords" =>
          /\ reply.status = 200
          /\ reply.body.ok
          /\ DefaultsOnly(reply.body)

----------------------------------------------------------------------------
(* Properties of the percentile functions (PctSpec) *)

\* the reference values strictly less than x
Below(distribution, x) ==
    Cardinality({i \in 1..Len(distribution) : distribution[i] < x})

\* safety score and percentile, in tenths, of the percentile 100 * count / len
Looked(count, len) ==
    LET s == percentile_to_safety_score(100 * count, len)
    IN  <<RoundTenths(s[1], s[2]), RoundTenths(100 * count, len)>>

\* C13 as claimed: a raw score of 0 or less gives (100, 0) whatever the reference
\* array, an empty one included; otherwise an empty array gives (50, 50);
\* otherwise the percentile is 100 * (values strictly less) / length and the
\* safety score its mapping (both to one decimal); the array [1,2,2,5,8] and the
\* raw score 3 give the percentile 40.
C13_ZeroFirst ==
    result.fn = "calculate_percentile_score" =>
        /\ args.raw_score <= 0 => result.value = <<1000, 0>>
        /\ (args.raw_score > 0 /\ args.distribution = <<>>) => result.value = <<500, 500>>
        /\ (args.raw_score > 0 /\ args.distribution # <<>>) =>
               result.value = Looked(Below(args.distribution, args.raw_score),
                                     Len(args.distribution))
        /\ (args.distribution = <<1, 2, 2, 5, 8>> /\ args.raw_score = 3) =>
               result.value[2] = 400

\* C13 as amended: an empty reference array gives (50, 50) whatever the raw
\* score; otherwise a raw score of 0 or less gives (100, 0); otherwise the
\* percentile is 100 * (values strictly less) / length and the safety score its
\* mapping (both to one decimal); the array [1,2,2,5,8] and the raw score 3 give
\* the percentile 60 (three values are less than 3).
C13_EmptyFirst ==
    result.fn = "calculate_percentile_score" =>
        result.value =
            IF args.distribution = <<>> THEN <<500, 500>>
            ELSE IF args.raw_score <= 0 THEN <<1000, 0>>
            ELSE Looked(Below(args.distribution, args.raw_score), Len(args.distribution))

\* the array [1,2,2,5,8] and the raw score 3 have given the percentile 60.0
C13_Witness ==
    /\ result.fn = "calculate_percentile_score"
    /\ args.distribution = <<1, 2, 2, 5, 8>> /\ args.raw_score = 3
    /\ result.value[2] = 600

\* a/b <= c/d for positive b and d
FracLeq(x, y) == x[1] * y[2] <= y[1] * x[2]

\* C15: the mapping is non-increasing, stays within [0, 100], and is continuous
\* at the breakpoints: it is 100 at 0, 90 at 50, 70 at 80, 40 at 95 and 0 at
\* 100, and from any percentile to the next one on a grid of step 1/d it falls
\* by no more than 8/d (the steepest segment's slope), so that no segment
\* starts below the end of the one before it.
C15_Mapping ==
    result.fn = "percentile_to_safety_score" =>
        LET p == <<args.n, args.d>>
            v == result.value
            w == result.next
        IN  /\ FracLeq(w, v)
            /\ FracLeq(<<0, 1>>, v) /\ FracLeq(v, <<100, 1>>)
            /\ FracLeq(<<0, 1>>, w) /\ FracLeq(w, <<100, 1>>)
            /\ FracLeq(<<v[1] * w[2] - w[1] * v[2], v[2] * w[2]>>, <<8, args.d>>)
            /\ (args.n = 0 => v[1] = 100 * v[2])
            /\ (args.n = 50 * args.d => v[1] = 90 * v[2])
            /\ (args.n = 80 * args.d => v[1] = 70 * v[2])
            /\ (args.n = 95 * args.d => v[1] = 40 * v[2])
            /\ (args.n + 1 = 50 * args.d => w[1] = 90 * w[2])
            /\ (args.n + 1 = 80 * args.d => w[1] = 70 * w[2])
            /\ (args.n + 1 = 95 * args.d => w[1] = 40 * w[2])
            /\ (args.n + 1 = 100 * args.d => w[1] = 0)

\* the mapping has been applied just before and just after the breakpoint 80
C15_Witness ==
    /\ result.fn = "percentile_to_safety_score"
    /\ args.d = MaxDen /\ args.n = 80 * args.d
    /\ result.value[1] = 70 * result.value[2]
    /\ result.next[1] < 70 * result.next[2]

----------------------------------------------------------------------------
(* Properties of select_best_forecast (ForecastSpec) *)

\* the call of select_best_forecast has returned
Forecasted == result.fn = "select_best_forecast"

\* the last score of the history, and the one before it
CurrentScore == args.history[Len(args.history)]
PreviousScore == args.history[Len(args.history) - 1]

\* the data each model needs, as the claims give it
Needs(name) ==
    CASE name = "Seasonal Decomp" -> 6
      [] name = "Polynomial Reg" -> 4
      [] OTHER -> 3

\* the model is active, has the data it needs and its computation did not raise
Succeeds(name) ==
    /\ name \in {"Seasonal Decomp", "Holt (Exp Smoothing)", "Polynomial Reg",
                  "Linear Regression", "Moving Average"}
    /\ Len(args.history) >= Needs(name)
    /\ ~args.lib[name].raises

\* C16: a history of fewer than 3 entries fits no model: the forecast is
\* "Insufficient Data", "Stable", and the last entry's score (50 for an empty
\* history), whatever the libraries would have computed.
C16_InsufficientData ==
    (Forecasted /\ Len(args.history) < 3) =>
        /\ result.value.model_used = [model |-> "Insufficient Data", suffix |-> ""]
        /\ result.value.trend_direction = "Stable"
        /\ result.value.predicted_score =
              IF args.history = <<>> THEN 500 ELSE CurrentScore

\* a history of two entries has been forecast while the libraries had a forecast
\* for every model
C16_Witness ==
    /\ Forecasted
    /\ Len(args.history) = 2
    /\ \A name \in ModelNames : ~args.lib[name].raises
    /\ result.value.predicted_score = args.history[2]

\* C17: for a history of at least 3 entries and at least one model succeeding,
\* the model named in model_used is an active model that succeeded with the
\* data it needs (Holt, linear regression, moving average 3, polynomial 4,
\* seasonal decomposition 6), its RMSE is reported and is no more than that of
\* any other model that succeeded; ARIMA is never named.
C17_MinRmse ==
    (Forecasted /\ Len(args.history) >= 3 /\ \E name \in ModelNames : Succeeds(name)) =>
        LET chosen == result.value.model_used.model
        IN  /\ chosen # "ARIMA"
            /\ Succeeds(chosen)
            /\ result.value.rmse = Fit(chosen, args.history, args.lib).rmse
            /\ \A name \in ModelNames :
                  Succeeds(name) =>
                      result.value.rmse <= Fit(name, args.history, args.lib).rmse

\* the model selected is not the first of the list, which succeeded with a
\* greater RMSE
C17_Witness ==
    /\ Forecasted
    /\ Len(args.history) = 6
    /\ Succeeds("Seasonal Decomp")
    /\ result.value.model_used.model = "Linear Regression"
    /\ result.value.rmse < Fit("Seasonal Decomp", args.history, args.lib).rmse

\* C18: for a history of at least 3 entries, whichever models raise or lack
\* data, the call returns a forecast; if every model is excluded it is the last
\* score, with "Fallback", RMSE 0 and "Stable".
C18_NeverPropagates ==
    (Forecasted /\ Len(args.history) >= 3) =>
        /\ result.value.trend_direction \in {"Stable", "Improving", "Declining"}
        /\ result.value.predicted_score \in 0..1000
        /\ (~\E name \in ModelNames : Succeeds(name)) =>
               result.value = [predicted_score |-> CurrentScore,
                               trend_direction |-> "Stable",
                               model_used |-> [model |-> "Fallback", suffix |-> ""],
                               rmse |-> 0]

\* every library computation raised, and the last score came back
C18_Witness ==
    /\ Forecasted
    /\ Len(args.history) >= 3
    /\ \A name \in ModelNames : args.lib[name].raises
    /\ result.value.model_used.model = "Fallback"
    /\ result.value.predicted_score = CurrentScore

\* the prediction of the model the forecast names
Selected == Fit(result.value.model_used.model, args.history, args.lib).predicted_score

\* a model has been selected
ModelSelected ==
    Forecasted /\ Len(args.history) >= 3 /\ \E name \in ModelNames : Succeeds(name)

\* C19: when a model has been selected, with diff = current - previous: if
\* diff > 10 and the selected prediction is below current, the forecast is
\* current, "Improving", and the model's name ends in " (Adjusted)"; if
\* diff < -10 and the prediction is above current, it is current, "Declining",
\* " (Adjusted)"; in every other case the prediction is the model's, unchanged,
\* and the name has no suffix.
C19_TrendOverride ==
    ModelSelected =>
        LET diff == CurrentScore - PreviousScore
            v == result.value
        IN  IF diff > 100 /\ Selected < CurrentScore
            THEN /\ v.predicted_score = CurrentScore
                 /\ v.trend_direction = "Improving"
                 /\ v.model_used.suffix = " (Adjusted)"
            ELSE IF diff < -100 /\ Selected > CurrentScore
            THEN /\ v.predicted_score = CurrentScore
                 /\ v.trend_direction = "Declining"
                 /\ v.model_used.suffix = " (Adjusted)"
            ELSE /\ v.predicted_score = Selected
                 /\ v.model_used.suffix = ""

\* a strong recent decline with a model predicting a recovery was overridden
C19_Witness ==
    /\ ModelSelected
    /\ CurrentScore - PreviousScore < -100
    /\ Selected > CurrentScore
    /\ result.value.trend_direction = "Declining"
    /\ result.value.model_used.suffix = " (Adjusted)"

\* a history of two entries that rose by more than 10, with a model the
\* libraries would have fitted to predict below the current score
TwoEntryRise ==
    /\ Forecasted
    /\ Len(args.history) = 2
    /\ args.history[2] - args.history[1] > 100
    /\ \E name \in ModelNames :
          ~args.lib[name].raises /\ Clamp(args.lib[name].forecast_val) < args.history[2]

\* C20 as claimed: the override applies to a history of two entries: the
\* forecast is current, "Improving", with a name ending in "(Adjusted)".
C20_OverrideOnTwo ==
    TwoEntryRise =>
        /\ result.value.predicted_score = args.history[2]
        /\ result.value.trend_direction = "Improving"
        /\ result.value.model_used.suffix = " (Adjusted)"

\* C20 as amended: no model is selected for a history of two entries and the
\* override does not apply to it: the forecast is current, "Stable", with the
\* name "Insufficient Data" and no suffix.
C20_NoOverrideOnTwo ==
    TwoEntryRise =>
        /\ result.value.predicted_score = args.history[2]
        /\ result.value.trend_direction = "Stable"
        /\ result.value.model_used = [model |-> "Insufficient Data", suffix |-> ""]
        /\ result.value.rmse = 0

\* the history 60, 75 has been forecast as 75, "Stable"
C20_Witness ==
    /\ TwoEntryRise
    /\ args.history = <<600, 750>>
    /\ result.value.predicted_score = 750
    /\ result.value.trend_direction = "Stable"

----------------------------------------------------------------------------
(* Properties of calculate_score (CalcSpec) *)

\* calculate_score has returned a response
Scored == result.fn = "calculate_score" /\ result.value.ok

\* the candidates: the stored rows of the last ten years within the radius of
\* the query point
Candidates ==
    SelectSeq(args.table,
              LAMBDA r : /\ (r.lat - args.key[1]) * (r.lat - args.key[1])
                            + (r.lon - args.key[2]) * (r.lon - args.key[2])
                            <= args.key[3] * args.key[3]
                         /\ args.today - r.date <= TenYears)

\* the candidates of a category aged from lo to hi days
Aged(cat, lo, hi) ==
    Cardinality({i \in 1..Len(Candidates) :
                    /\ Candidates[i].category = cat
                    /\ args.today - Candidates[i].date >= lo
                    /\ args.today - Candidates[i].date <= hi})

\* the trend of a recent count against a prior count
CountTrend(recent, prior) ==
    IF prior = 0 THEN (IF recent > 0 THEN "Up" ELSE "Stable")
    ELSE IF 5 * (recent - prior) > prior THEN "Up"
    ELSE IF 5 * (recent - prior) < -prior THEN "Down"
    ELSE "Stable"

\* C21: the trend of every category entry compares the category's incidents of
\* the last 365 days with those of the 365 days before: "Up" if the prior window
\* is empty and the recent one is not, else "Up" above +20%, "Down" below -20%,
\* else "Stable"; a drop of more than 20% reports "Down".
C21_CategoryTrend ==
    Scored =>
        \A e \in result.value.category_breakdown :
            e.trend = CountTrend(Aged(e.category, 0, 365), Aged(e.category, 366, 730))

\* the text of a tag is among the tags of a list
HasTag(tags, text) == \E i \in 1..Len(tags) : tags[i] = Chars(text)

\* the area tags are as the current score says
AreaTags(value) ==
    /\ value.current_score >= 800 <=>
          (HasTag(value.risk_tags.negative, "High Safety Area")
           /\ HasTag(value.risk_tags.positive, "High Safety Area"))
    /\ value.current_score >= 800 <=>
          (HasTag(value.risk_tags.negative, "High Safety Area")
           \/ HasTag(value.risk_tags.positive, "High Safety Area"))
    /\ value.current_score <= 400 <=> HasTag(value.risk_tags.negative, "High Crime Area")
    /\ ~HasTag(value.risk_tags.positive, "High Crime Area")

\* C22 as claimed: in every response calculate_score returns, "High Safety Area"
\* is present (in both lists) exactly when current_score >= 80 and "High Crime
\* Area" is present (in negative) exactly when current_score <= 40.
C22_TagsFollowScore ==
    Scored => AreaTags(result.value)

\* C22 as amended: the same, in every response returned for a location that has
\* a candidate within the radius; the response for a location without one has
\* current_score 100 and no tag at all.
C22_TagsWithCandidates ==
    Scored =>
        IF Candidates # <<>> THEN AreaTags(result.value)
        ELSE /\ result.value.current_score = 1000
             /\ result.value.risk_tags = [negative |-> <<>>, positive |-> <<>>]

\* a response of score at least 80 with the tag in both lists, for a location
\* with candidates
C22_Witness ==
    /\ Scored
    /\ Candidates # <<>>
    /\ result.value.current_score >= 800
    /\ HasTag(result.value.risk_tags.negative, "High Safety Area")
    /\ HasTag(result.value.risk_tags.positive, "High Safety Area")

\* C23: category_breakdown has exactly one entry for each category among the
\* candidates aged at most 365 days, those outside the weight table included,
\* and no other entry: every incident counted in current_score is counted in
\* one category entry.
C23_EveryCategory ==
    Scored =>
        LET present == {Candidates[i].category :
                          i \in {j \in 1..Len(Candidates) :
                                   args.today - Candidates[j].date <= 365}}
        IN  /\ {e.category : e \in result.value.category_breakdown} = present
            /\ \A e, f \in result.value.category_breakdown :
                  e.category = f.category => e = f
            /\ \A e \in result.value.category_breakdown :
                  e.incident_count = Aged(e.category, 0, 365)

----------------------------------------------------------------------------
(* Properties of the acquisition (AcquireSpec) *)

\* the answer ends the download, as the claim lists the cases: the request
\* raises, the status is not success, the page is empty, or it has fewer than
\* 2000 records
EndsDownload(answer) ==
    answer.raises \/ answer.status # 200 \/ answer.n = 0 \/ answer.n < 2000

\* the records of the pages the service returned, page after page
RECURSIVE Returned(_)
Returned(log) ==
    IF log = <<>> THEN <<>>
    ELSE LET page == Head(log)
         IN  (IF ~page.answer.raises /\ page.answer.status = 200 /\ page.answer.n > 0
              THEN <<[first |-> page.offset, n |-> page.answer.n]>>
              ELSE <<>>)
             \o Returned(Tail(log))

\* C24: download_csv requests the offsets 0, 2000, 4000, ... in that order, none
\* twice; the loop goes on after a page exactly when the page is a full page of
\* a successful request, so it ends at the first page that is empty, short, not
\* a success or raises; the accumulated records are the pages returned, in order.
C24_Pagination ==
    /\ \A i \in 1..Len(pages) : pages[i].offset = 2000 * (i - 1)
    /\ \A i \in 1..Len(pages) :
          EndsDownload(pages[i].answer) <=> (i = Len(pages) /\ step # "page")
    /\ all_features = Returned(pages)

\* two full pages and a short one have been accumulated, and the loop has ended
C24_Witness ==
    /\ step = "convert"
    /\ Len(pages) = 3
    /\ pages[3].offset = 4000
    /\ pages[3].answer.n = 1999
    /\ Len(all_features) = 3

\* C25: a dataset that fails to resolve or to download is not retried and stops
\* nothing: the nine datasets are processed once each, in order, the metadata
\* document is written at the end of the run, and its datasets list has an entry
\* exactly for each dataset whose file was produced and analyzed.
C25_DatasetIsolation ==
    /\ processed = SubSeq(DatasetNames, 1, Len(processed))
    /\ step \in {"write", "done"} => processed = DatasetNames
    /\ metadata.written <=> step = "done"
    /\ step = "done" =>
          metadata.datasets =
              SelectSeq(DatasetNames, LAMBDA name : name \in files /\ name \in analyzed)

\* a finished run in which the first seven datasets gave no file and the last
\* two were produced and analyzed
C25_Witness ==
    /\ step = "done"
    /\ metadata.written
    /\ files = {DatasetNames[8], DatasetNames[9]}
    /\ metadata.datasets = <<DatasetNames[8], DatasetNames[9]>>

----------------------------------------------------------------------------
(* Properties of the rows without a natural key (Spec) *)

\* the texts a missing key is stored as: str(None) and str(nan)
Placeholders == {"None", "nan"}

\* the rows of a table stored under a placeholder
StoredUnder(table, k) == {i \in 1..Len(table) : table[i].event_unique_id = k}

\* the run has a row to store without a natural key: a tabular row that passes
\* the row checks with no EVENT_UNIQUE_ID (the files have no OBJECTID), or, in a
\* run that ends without an exception, a Point feature with no EVENT_UNIQUE_ID
KeylessInput ==
    \/ \E i \in KeptRows(data.csv) : data.csv[i].EVENT_UNIQUE_ID = NA
    \/ /\ ~crashed'
       /\ \E g \in 1..2 : \E i \in 1..Len(GeoFiles(data)[g]) :
             LET f == GeoFiles(data)[g][i]
             IN  f.gtype = "Point" /\ Len(f.coordinates) >= 2 /\ f.EVENT_UNIQUE_ID = PyNone

\* C26: a row without a natural key is stored under the text of the missing
\* value: after every ingestion run at most one row is stored per placeholder, a
\* run with a key-less row to store leaves a row under a placeholder, and once a
\* placeholder is stored every later key-less row is ignored: the stored row
\* stays, whatever the fields of the later ones.
C26_PlaceholderKey ==
    [][/\ \A k \in Placeholders : Cardinality(StoredUnder(crimes', k)) <= 1
       /\ \A k \in Placeholders :
             StoredUnder(crimes, k) # {} =>
                 /\ StoredUnder(crimes', k) = StoredUnder(crimes, k)
                 /\ \A i \in StoredUnder(crimes, k) : crimes'[i] = crimes[i]
       /\ (runs' = runs + 1 /\ KeylessInput) =>
             \E k \in Placeholders : StoredUnder(crimes', k) # {}]_vars

\* after a run over two different key-less records, one row is stored under the
\* placeholder
C26_Witness ==
    /\ runs >= 1
    /\ \E m, n \in 1..Len(AllRecords(data)) :
          /\ AllRecords(data)[m].event_unique_id = "None"
          /\ AllRecords(data)[n].event_unique_id = "None"
          /\ AllRecords(data)[m] # AllRecords(data)[n]
    /\ Cardinality(StoredUnder(crimes, "None")) = 1

====
